---- MODULE Spec2Model ----
(***************************************************************************)
(* A model of src/src/PaymentChannel.js: the PaymentChannel object of the  *)
(* SingularityNET SDK, its state reconciliation (syncState) against the    *)
(* MPE escrow contract and the service daemon, and the pass-through        *)
(* escrow calls.                                                           *)
(*                                                                         *)
(* Numbers.  TLC's integers are 32 bits wide, while the amounts of the     *)
(* program are arbitrary-precision (BigNumber) and the result of the JS    *)
(* operator `-` is an IEEE-754 double with a 53-bit significand.  An       *)
(* arbitrary-precision non-negative integer is therefore kept as two       *)
(* limbs, value = hi * Limb + lo with Limb = 2^27, which covers            *)
(* [0, 2^54]: one binade beyond the largest integer range a double holds   *)
(* exactly.                                                                *)
(***************************************************************************)
EXTENDS Integers, Sequences, FiniteSets, TLC

\* ------------------------------------------------------------------ bounds
\* the number of syncState invocations made on the channel
MaxInv == 2
\* the number of events outside syncState in one behaviour: escrow calls made
\* through the channel, claims on-chain, changes of the daemon's state
MaxEnv == 1

\* ------------------------------------------------- arbitrary precision
Limb == 2^27
Half == 2^26

\* BigNumber: an arbitrary-precision integer, or BigNumber's NaN
BN(h, l) == [nan |-> FALSE, hi |-> h, lo |-> l]
BigNaN == [nan |-> TRUE, hi |-> 0, lo |-> 0]
Zero == BN(0, 0)
Small(n) == BN(0, n)
\* 2^53 and 2^53 + 1, the first integers a double cannot tell apart
Two53 == BN(Half, 0)
Two53p1 == BN(Half, 1)

BNLess(a, b) == a.hi < b.hi \/ (a.hi = b.hi /\ a.lo < b.lo)

BNAdd(a, b) ==
    LET s == a.lo + b.lo
    IN  BN(a.hi + b.hi + (s \div Limb), s % Limb)

\* a - b for b <= a
BNMonus(a, b) ==
    IF a.lo >= b.lo THEN BN(a.hi - b.hi, a.lo - b.lo)
    ELSE BN(a.hi - b.hi - 1, a.lo + Limb - b.lo)

\* 16 * v + d, the step of reading one more hexadecimal digit
MulAdd16(v, d) ==
    LET s == v.lo * 16 + d
    IN  BN(v.hi * 16 + (s \div Limb), s % Limb)

\* ------------------------------------------------------------ JS Number
\* A double holding an integer: sign and magnitude, or NaN.
Num(n, h, l) == [nan |-> FALSE, neg |-> n, hi |-> h, lo |-> l]
NumNaN == [nan |-> TRUE, neg |-> FALSE, hi |-> 0, lo |-> 0]

\* round-to-nearest, ties-to-even, of a magnitude below 2^54 to a 53-bit
\* significand: exact below 2^53, and to a multiple of 2 with an even
\* significand (a multiple of 4 on a tie) in [2^53, 2^54)
Round53(m) ==
    IF m.hi < Half \/ m.lo % 2 = 0 THEN m
    ELSE IF m.lo % 4 = 1 THEN BN(m.hi, m.lo - 1)
    ELSE IF m.lo + 1 = Limb THEN BN(m.hi + 1, 0)
    ELSE BN(m.hi, m.lo + 1)

\* ToNumber of a BigNumber (through valueOf, a decimal string)
ToNumber(b) ==
    IF b.nan THEN NumNaN
    ELSE LET r == Round53(b) IN Num(FALSE, r.hi, r.lo)

\* the JS operator `-` on two non-negative doubles
NumSub(x, y) ==
    IF x.nan \/ y.nan THEN NumNaN
    ELSE LET a == BN(x.hi, x.lo)
             b == BN(y.hi, y.lo)
             m == IF BNLess(a, b) THEN Round53(BNMonus(b, a))
                  ELSE Round53(BNMonus(a, b))
         IN  Num(BNLess(a, b), m.hi, m.lo)

\* totalAmount - lastSignedAmount of line 78: both operands are objects, so
\* each is converted ToNumber and the difference is a double
Minus(totalAmount, lastSignedAmount) ==
    NumSub(ToNumber(totalAmount), ToNumber(lastSignedAmount))

\* ------------------------------------------------------ byte decoding
\* buffer.toString('hex'): two hexadecimal digits a byte
RECURSIVE ToHex(_)
ToHex(bytes) ==
    IF bytes = <<>> THEN <<>>
    ELSE <<bytes[1] \div 16, bytes[1] % 16>> \o ToHex(Tail(bytes))

RECURSIVE ParseHexFrom(_, _)
ParseHexFrom(v, digits) ==
    IF digits = <<>> THEN v
    ELSE ParseHexFrom(MulAdd16(v, digits[1]), Tail(digits))

\* new BigNumber(`0x${hex}`): a base-16 literal needs a digit after the
\* prefix; the string "0x" alone is not a number and yields NaN
BigNumberOfHex(digits) ==
    IF digits = <<>> THEN BigNaN ELSE ParseHexFrom(Zero, digits)

_uint8ArrayToBN(uint8Array) == BigNumberOfHex(ToHex(uint8Array))

\* ------------------------------------------------------------- channel id
\* a channel id: a signed integer, magnitude in two limbs
Id(n, h, l) == [neg |-> n, hi |-> h, lo |-> l]
\* ids inside and outside the range of a 4-byte unsigned integer:
\* 2^32 - 2^27 + 5, -1 and 2^32
ChannelIds == {Id(FALSE, 31, 5), Id(TRUE, 0, 1), Id(FALSE, 32, 0)}

\* a slip at line 94: the id is written without the range check
InUInt32Lenient(id) == TRUE

\* the range check of Buffer.writeUInt32BE: 0 <= value <= 2^32 - 1
InUInt32(id) == ~id.neg /\ id.hi < 32

\* Buffer.alloc(4) and writeUInt32BE(id, 0): the four bytes, most significant first
EncodeUInt32BE(id) ==
    <<id.hi * 8 + (id.lo \div 2^24),
      (id.lo \div 2^16) % 256,
      (id.lo \div 2^8) % 256,
      id.lo % 256>>

\* account.signedData({t: 'uint256', v: channelId}): the signature bytes, opaque
SignedData(id) == <<"signature", "uint256", id>>

\* -------------------------------------------------------- the world outside
Account == "account"

\* the escrow contract's record of the channel, as mpeContract.channels returns it
ChainRecord(n, e, v) == [nonce |-> n, expiration |-> e, value |-> v]
ChainRecords ==
    {ChainRecord(Small(5), Small(9), Small(5)),
     ChainRecord(Small(0), Small(9), Two53)}

\* the daemon's reply: two byte arrays
Reply(n, a) == [currentNonce |-> n, currentSignedAmount |-> a]
Replies ==
    {Reply(<<4>>, <<1>>),
     Reply(<<>>, <<>>),
     Reply(<<0, 0>>, <<32, 0, 0, 0, 0, 0, 1>>)}

\* what callers pass to addFunds, extendExpiration and extendAndAddFunds
Amounts == {Small(1)}
Expirations == {Small(10)}

\* the errors the collaborators raise: the contract call, the signer, the
\* range check of writeUInt32BE, and the gRPC status of the daemon's reply
ContractErrors == {"Web3Error"}
SignErrors == {"SignError"}
RangeError == "RangeError"
ServiceErrors == {"GrpcUnauthenticated", "GrpcUnavailable"}

\* ------------------------------------------------------------------ state
Inv == 1..MaxInv

VARIABLES
    channelId,      \* this._channelId
    state,          \* this._state
    chain,          \* the escrow contract's record of the channel
    service,        \* what the daemon would reply now
    pc,             \* where each syncState invocation stands
    latestChannelInfoOnBlockchain,  \* line 74, per invocation in flight
    request,        \* the ChannelStateRequest sent, per invocation
    currentState,   \* line 75, per invocation in flight
    error,          \* what a rejected invocation rejected with
    lastTx,         \* the last of addFunds, extendExpiration, extendAndAddFunds
                    \* invoked: its arguments, the contract calls it made, the
                    \* outcome of the contract's promise and of its own
    events,         \* how many events outside syncState have happened
    lastBy,         \* history: the invocation that assigned this._state last, or 0
    lastQuiet,      \* history: nothing outside has happened since lastBy was called
    repeat,         \* history: the last assignment of this._state was made by an
                    \* invocation called after the assignment before it, and
                    \* nothing outside happened from the call of the earlier
                    \* assigner on
    hist,           \* history, per invocation in flight: the held state and
                    \* lastBy at the call, and whether nothing outside has
                    \* happened since the call
    calls,          \* per invocation, how many times it has called
                    \* mpeContract.channels, account.signedData and getChannelState
    par,            \* the same sync with its two reads issued at once, run beside
                    \* invocation 1: its position, its two responses, its held state
    seen            \* what a caller got from the state getter: the fields of
                    \* that object then and now, and whether it is still this._state

vars == <<channelId, state, chain, service, pc, latestChannelInfoOnBlockchain,
          request, currentState, error, lastTx, events, lastBy, lastQuiet, repeat,
          hist, calls, par, seen>>

\* the state of the constructor, lines 20-23
InitialState == [nonce |-> Zero, lastSignedAmount |-> Zero]

NoInfo == <<>>
Receipt == [ok |-> TRUE, value |-> "receipt"]
Failure(e) == [ok |-> FALSE, value |-> e]
NoTx == [method |-> "none", given |-> <<>>, made |-> <<>>, outcome |-> Receipt,
         result |-> Receipt]
NoHist == [pre |-> InitialState, after |-> 0, quiet |-> TRUE]
NoCalls == [channels |-> 0, signedData |-> 0, getChannelState |-> 0]
NoPar == [pc |-> "idle", info |-> NoInfo, cur |-> NoInfo, state |-> InitialState]
NotSeen == [taken |-> FALSE, current |-> FALSE, then |-> InitialState, now |-> InitialState]

Init ==
    /\ channelId \in ChannelIds
    /\ state = InitialState
    /\ chain \in ChainRecords
    /\ service \in Replies
    /\ pc = [i \in Inv |-> "idle"]
    /\ latestChannelInfoOnBlockchain = [i \in Inv |-> NoInfo]
    /\ request = [i \in Inv |-> NoInfo]
    /\ currentState = [i \in Inv |-> NoInfo]
    /\ error = [i \in Inv |-> "none"]
    /\ lastTx = NoTx
    /\ events = 0
    /\ lastBy = 0
    /\ lastQuiet = TRUE
    /\ repeat = FALSE
    /\ hist = [i \in Inv |-> NoHist]
    /\ calls = [i \in Inv |-> NoCalls]
    /\ par = NoPar
    /\ seen = NotSeen

\* --------------------------------------------------------------- syncState
\* a slip in the destructuring of lines 76-77: the daemon's nonce shadows the
\* on-chain one
MergedNonceShadowed(info, cur) ==
    [nonce |-> cur.nonce,
     currentNonce |-> cur.nonce,
     expiration |-> info.expiration,
     totalAmount |-> info.value,
     lastSignedAmount |-> cur.lastSignedAmount,
     availableAmount |-> Minus(info.value, cur.lastSignedAmount)]

\* lines 76-86: the record syncState builds from its two reads
Merged(info, cur) ==
    [nonce |-> info.nonce,
     currentNonce |-> cur.nonce,
     expiration |-> info.expiration,
     totalAmount |-> info.value,
     lastSignedAmount |-> cur.lastSignedAmount,
     availableAmount |-> Minus(info.value, cur.lastSignedAmount)]

\* a slip at line 78-79: the signed amount is deducted from the available
\* amount already held instead of from the total
ReplaceDeducting(held, merged) ==
    IF /\ "availableAmount" \in DOMAIN held
       /\ ~held.availableAmount.nan
       /\ ~held.availableAmount.neg
       /\ ~merged.lastSignedAmount.nan
    THEN [merged EXCEPT !.availableAmount =
              NumSub(held.availableAmount, ToNumber(merged.lastSignedAmount))]
    ELSE merged

\* line 79: this._state = {...}, the whole object replaced
Replace(held, merged) == merged

\* a slip at line 74: the on-chain fields are written into this._state as
\* soon as they are read
StateAfterChainReadEager(held, info) ==
    [nonce |-> info.nonce,
     lastSignedAmount |-> held.lastSignedAmount,
     expiration |-> info.expiration,
     totalAmount |-> info.value]

\* line 74: the on-chain record goes to a local constant; this._state is not touched
StateAfterChainRead(held, info) == held

\* a slip at lines 103-105: the on-chain nonce already read is kept on failure
StateAfterRejectPartial(held, info) == [held EXCEPT !.nonce = info.nonce]

\* lines 103-105: the callback's error rejects the promise; this._state is not touched
StateAfterReject(held, info) == held

\* lines 107-112: the daemon's reply, decoded
ChannelStateOf(response) ==
    [lastSignedAmount |-> _uint8ArrayToBN(response.currentSignedAmount),
     nonce |-> _uint8ArrayToBN(response.currentNonce)]

\* lines 93-98: the ChannelStateRequest
ChannelStateRequest(id) ==
    [channelId |-> EncodeUInt32BE(id), signature |-> SignedData(id)]

\* a slip at line 74: the signature is asked for before the on-chain read is
\* awaited
CallsAtCallSigningFirst(c) == [c EXCEPT !.channels = @ + 1, !.signedData = @ + 1]

\* line 74: the call of syncState issues the on-chain read, and nothing else
CallsAtCall(c) == [c EXCEPT !.channels = @ + 1]

\* line 91: the signature over the channel id is asked of the account
CallsAtSign(c) == [c EXCEPT !.signedData = @ + 1]

\* line 102: the request goes to the daemon
CallsAtSend(c) == [c EXCEPT !.getChannelState = @ + 1]


\* a slip at lines 103-105: the request is sent once more when the callback
\* delivers an error
CallsAtCallbackErrorRetry(c) == [c EXCEPT !.getChannelState = @ + 1]

\* lines 103-105: on the callback's error the promise is rejected; nothing is
\* called again
CallsAtCallbackError(c) == c

\* a slip at line 79: the fields are assigned into the object this._state
\* already refers to
RetiredObjectAssigned(old, merged) == merged

\* line 79 makes this._state refer to a new object literal; the object it
\* referred to before is not written
RetiredObject(old, merged) == old

\* the object a caller got from the getter, once line 79 has run
SeenAfterCommit(sn, merged) ==
    IF sn.taken /\ sn.current
    THEN [sn EXCEPT !.current = FALSE, !.now = RetiredObject(sn.now, merged)]
    ELSE sn

\* between the call of syncState and its settlement
InFlight(i) == pc[i] \in {"chain", "service", "merge"}

\* a slip: the promise is left pending, neither resolve nor reject nor the
\* return is reached
SettlesLeftPending(i, to) ==
    UNCHANGED <<pc, latestChannelInfoOnBlockchain, currentState, hist>>

\* the invocation has settled: its locals are gone
Settles(i, to) ==
    /\ pc' = [pc EXCEPT ![i] = to]
    /\ latestChannelInfoOnBlockchain' = [latestChannelInfoOnBlockchain EXCEPT ![i] = NoInfo]
    /\ currentState' = [currentState EXCEPT ![i] = NoInfo]
    /\ hist' = [hist EXCEPT ![i] = NoHist]

\* line 72-74: syncState is called and issues mpeContract.channels(channelId)
CallSyncState(i) ==
    /\ pc[i] = "idle"
    /\ IF i = 1 THEN TRUE ELSE pc[i - 1] # "idle"
    /\ pc' = [pc EXCEPT ![i] = "chain"]
    /\ calls' = [calls EXCEPT ![i] = CallsAtCall(@)]
    /\ hist' = [hist EXCEPT ![i] = [pre |-> state, after |-> lastBy, quiet |-> TRUE]]
    /\ UNCHANGED <<channelId, state, chain, service, latestChannelInfoOnBlockchain,
                   request, currentState, error, lastTx, events, lastBy, lastQuiet, repeat,
                   seen, par>>

\* line 74 rejects: syncState rejects with the contract's error
ChainReadRejects(i, e) ==
    /\ pc[i] = "chain"
    /\ Settles(i, "rejected")
    /\ error' = [error EXCEPT ![i] = e]
    /\ UNCHANGED <<channelId, state, chain, service, request, lastTx, events,
                   lastBy, lastQuiet, repeat, calls, seen, par>>

\* line 74 resolves, line 91 throws: the signer fails
ChainReadThenSignThrows(i, e) ==
    /\ pc[i] = "chain"
    /\ Settles(i, "rejected")
    /\ error' = [error EXCEPT ![i] = e]
    /\ calls' = [calls EXCEPT ![i] = CallsAtSign(@)]
    /\ state' = StateAfterChainRead(state, chain)
    /\ UNCHANGED <<channelId, chain, service, request, lastTx, events, lastBy,
                   lastQuiet, repeat, seen, par>>

\* line 74 resolves, line 91 signs, line 94 throws: the id is no uint32
ChainReadThenEncodeThrows(i) ==
    /\ pc[i] = "chain"
    /\ ~InUInt32(channelId)
    /\ Settles(i, "rejected")
    /\ error' = [error EXCEPT ![i] = RangeError]
    /\ calls' = [calls EXCEPT ![i] = CallsAtSign(@)]
    /\ state' = StateAfterChainRead(state, chain)
    /\ UNCHANGED <<channelId, chain, service, request, lastTx, events, lastBy,
                   lastQuiet, repeat, seen, par>>

\* line 74 resolves, lines 91-102: the request is signed, encoded and sent
ChainReadThenSend(i) ==
    /\ pc[i] = "chain"
    /\ InUInt32(channelId)
    /\ latestChannelInfoOnBlockchain' = [latestChannelInfoOnBlockchain EXCEPT ![i] = chain]
    /\ request' = [request EXCEPT ![i] = ChannelStateRequest(channelId)]
    /\ pc' = [pc EXCEPT ![i] = "service"]
    /\ calls' = [calls EXCEPT ![i] = CallsAtSend(CallsAtSign(@))]
    /\ state' = StateAfterChainRead(state, chain)
    /\ UNCHANGED <<channelId, chain, service, currentState, error, lastTx,
                   events, lastBy, lastQuiet, repeat, hist, seen, par>>

\* lines 102-105: the callback delivers an error
CallbackError(i, e) ==
    /\ pc[i] = "service"
    /\ Settles(i, "rejected")
    /\ error' = [error EXCEPT ![i] = e]
    /\ calls' = [calls EXCEPT ![i] = CallsAtCallbackError(@)]
    /\ state' = StateAfterReject(state, latestChannelInfoOnBlockchain[i])
    /\ UNCHANGED <<channelId, chain, service, request, lastTx, events, lastBy,
                   lastQuiet, repeat, seen, par>>

\* lines 106-114: the callback delivers a reply, which is decoded
CallbackResponse(i) ==
    /\ pc[i] = "service"
    /\ currentState' = [currentState EXCEPT ![i] = ChannelStateOf(service)]
    /\ pc' = [pc EXCEPT ![i] = "merge"]
    /\ UNCHANGED <<channelId, state, chain, service, latestChannelInfoOnBlockchain,
                   request, error, lastTx, events, lastBy, lastQuiet, repeat, hist,
                   calls, seen, par>>

\* lines 76-87: the merge, the assignment of this._state, the return
Commit(i) ==
    /\ pc[i] = "merge"
    /\ state' = Replace(state, Merged(latestChannelInfoOnBlockchain[i], currentState[i]))
    /\ Settles(i, "done")
    /\ seen' = SeenAfterCommit(seen, state')
    /\ lastBy' = i
    /\ repeat' = (lastBy # 0 /\ hist[i].after = lastBy /\ lastQuiet)
    /\ lastQuiet' = (repeat' \/ hist[i].quiet)
    /\ UNCHANGED <<channelId, chain, service, request, error, lastTx, events, calls, par>>

\* lines 36-38: a caller reads the state getter and keeps the object it returns
GetState ==
    /\ ~seen.taken
    /\ events < MaxEnv
    /\ events' = events + 1
    /\ seen' = [taken |-> TRUE, current |-> TRUE, then |-> state, now |-> state]
    /\ UNCHANGED <<channelId, state, chain, service, pc, latestChannelInfoOnBlockchain,
                   request, currentState, error, lastTx, lastBy, lastQuiet,
                   repeat, hist, calls, par>>

\* ------------------------------------------------------------ escrow calls
\* an event outside syncState: counted, and noted by the history
Outside ==
    /\ events' = events + 1
    /\ lastQuiet' = (lastBy = 0)
    /\ hist' = [i \in Inv |-> [hist[i] EXCEPT !.quiet = ~InFlight(i)]]

\* a slip at lines 45-66: the call's last argument is recorded in this._state
\* before any sync
StateAfterEscrowCallOptimistic(held, op, args) ==
    [nonce |-> held.nonce,
     lastSignedAmount |-> held.lastSignedAmount,
     totalAmount |-> args[Len(args)]]

\* lines 45-66: the three calls return the contract's promise; this._state is
\* not touched
StateAfterEscrowCall(held, op, args) == held

\* the contract call made: its name and the arguments handed to it
EscrowCall(op, args, ok) ==
    [op |-> op, account |-> Account, channelId |-> channelId, args |-> args, ok |-> ok]

\* lines 45-47: the contract calls addFunds makes
addFunds(amount) == <<[op |-> "channelAddFunds", args |-> <<amount>>]>>

\* lines 54-56: the contract calls extendExpiration makes
extendExpiration(expiration) == <<[op |-> "channelExtend", args |-> <<expiration>>]>>

\* a slip at line 65: the two arguments are handed over in the other order
extendAndAddFundsSwapped(expiration, amount) ==
    <<[op |-> "channelExtendAndAddFunds", args |-> <<amount, expiration>>]>>

\* lines 64-66: the contract calls extendAndAddFunds makes
extendAndAddFunds(expiration, amount) ==
    <<[op |-> "channelExtendAndAddFunds", args |-> <<expiration, amount>>]>>

ContractCallsOf(method, given) ==
    CASE method = "addFunds" -> addFunds(given[1])
      [] method = "extendExpiration" -> extendExpiration(given[1])
      [] method = "extendAndAddFunds" -> extendAndAddFunds(given[1], given[2])

\* lines 46, 55, 65: the method returns the promise the contract call returned
Returned(outcome) == outcome

\* one of the three methods invoked with its arguments, the contract's promise
\* settling with the outcome
Invoked(method, given, outcome) ==
    LET cs == ContractCallsOf(method, given)
    IN  [method |-> method,
         given |-> given,
         made |-> [k \in 1..Len(cs) |-> EscrowCall(cs[k].op, cs[k].args, outcome.ok)],
         outcome |-> outcome,
         result |-> Returned(outcome)]

\* lines 45-47, the transaction is mined: the deposit grows
AddFundsSucceeds(amount) ==
    /\ events < MaxEnv
    /\ lastTx' = Invoked("addFunds", <<amount>>, Receipt)
    /\ chain' = [chain EXCEPT !.value = BNAdd(chain.value, amount)]
    /\ Outside
    /\ state' = StateAfterEscrowCall(state, "channelAddFunds", <<amount>>)
    /\ UNCHANGED <<channelId, service, pc, latestChannelInfoOnBlockchain, request,
                   currentState, error, lastBy, repeat, calls, seen, par>>

\* lines 54-56, the transaction is mined: the expiry moves
ExtendExpirationSucceeds(expiration) ==
    /\ events < MaxEnv
    /\ lastTx' = Invoked("extendExpiration", <<expiration>>, Receipt)
    /\ chain' = [chain EXCEPT !.expiration = expiration]
    /\ Outside
    /\ state' = StateAfterEscrowCall(state, "channelExtend", <<expiration>>)
    /\ UNCHANGED <<channelId, service, pc, latestChannelInfoOnBlockchain, request,
                   currentState, error, lastBy, repeat, calls, seen, par>>

\* lines 64-66, the transaction is mined: both
ExtendAndAddFundsSucceeds(expiration, amount) ==
    /\ events < MaxEnv
    /\ lastTx' = Invoked("extendAndAddFunds", <<expiration, amount>>, Receipt)
    /\ chain' = [chain EXCEPT !.expiration = expiration,
                              !.value = BNAdd(chain.value, amount)]
    /\ Outside
    /\ state' = StateAfterEscrowCall(state, "channelExtendAndAddFunds", <<expiration, amount>>)
    /\ UNCHANGED <<channelId, service, pc, latestChannelInfoOnBlockchain, request,
                   currentState, error, lastBy, repeat, calls, seen, par>>

\* lines 45-66, the contract call fails: the promise returned rejects
EscrowCallFails(method, given) ==
    /\ events < MaxEnv
    /\ \E e \in ContractErrors : lastTx' = Invoked(method, given, Failure(e))
    /\ Outside
    /\ state' = StateAfterEscrowCall(state, method, given)
    /\ UNCHANGED <<channelId, chain, service, pc, latestChannelInfoOnBlockchain,
                   request, currentState, error, lastBy, repeat, calls, seen, par>>

\* the three methods with the arguments callers pass
EscrowCalls ==
    {<<"addFunds", <<a>>>> : a \in Amounts}
    \cup {<<"extendExpiration", <<e>>>> : e \in Expirations}
    \cup {<<"extendAndAddFunds", <<e, a>>>> : e \in Expirations, a \in Amounts}

\* ------------------------------------------------- the world outside moves
\* the recipient claims on-chain: the record's nonce goes up (what line 74 reads)
ChannelClaim ==
    /\ events < MaxEnv
    /\ chain' = [chain EXCEPT !.nonce = BNAdd(chain.nonce, Small(1))]
    /\ Outside
    /\ UNCHANGED <<channelId, state, service, pc, latestChannelInfoOnBlockchain,
                   request, currentState, error, lastTx, lastBy, repeat, calls, seen,
                   par>>

\* the daemon's knowledge of the channel changes (what line 102 is answered with)
ServiceUpdate(r) ==
    /\ events < MaxEnv
    /\ r # service
    /\ service' = r
    /\ Outside
    /\ UNCHANGED <<channelId, state, chain, pc, latestChannelInfoOnBlockchain,
                   request, currentState, error, lastTx, lastBy, repeat, calls, seen,
                   par>>

\* ------------------------------------------- the two reads issued at once
\* The sync described with both reads issued at the call: the on-chain read and
\* the signed request go out together, the two responses arrive in either
\* order, and the merge of lines 76-86 runs when both are in.
ParFrame ==
    UNCHANGED <<channelId, state, chain, service, pc, latestChannelInfoOnBlockchain,
                request, currentState, error, lastTx, events, lastBy, lastQuiet,
                repeat, hist, calls, seen>>

\* called in the same world as invocation 1, before that one has read anything
ParCall ==
    /\ par.pc = "idle"
    /\ pc[1] = "chain"
    /\ hist[1].quiet
    /\ par' = [pc |-> IF InUInt32(channelId) THEN "both" ELSE "rejected",
               info |-> NoInfo, cur |-> NoInfo, state |-> state]
    /\ ParFrame

ParChainResolves ==
    /\ par.pc = "both"
    /\ par.info = NoInfo
    /\ par' = [par EXCEPT !.info = chain]
    /\ ParFrame

ParChainRejects(e) ==
    /\ par.pc = "both"
    /\ par.info = NoInfo
    /\ par' = [par EXCEPT !.info = [err |-> e]]
    /\ ParFrame

ParCallbackResponse ==
    /\ par.pc = "both"
    /\ par.cur = NoInfo
    /\ par' = [par EXCEPT !.cur = ChannelStateOf(service)]
    /\ ParFrame

ParCallbackError(e) ==
    /\ par.pc = "both"
    /\ par.cur = NoInfo
    /\ par' = [par EXCEPT !.cur = [err |-> e]]
    /\ ParFrame

ParFailed(resp) == resp # NoInfo /\ DOMAIN resp = {"err"}

\* both responses are in: rejected if either is an error, else merged and held
ParSettles ==
    /\ par.pc = "both"
    /\ par.info # NoInfo
    /\ par.cur # NoInfo
    /\ par' = IF ParFailed(par.info) \/ ParFailed(par.cur)
              THEN [par EXCEPT !.pc = "rejected"]
              ELSE [par EXCEPT !.pc = "done",
                               !.state = Replace(par.state, Merged(par.info, par.cur))]
    /\ ParFrame

\* ------------------------------------------------------------ specification
Next ==
    \/ \E i \in Inv : CallSyncState(i)
    \/ \E i \in Inv, e \in ContractErrors : ChainReadRejects(i, e)
    \/ \E i \in Inv, e \in SignErrors : ChainReadThenSignThrows(i, e)
    \/ \E i \in Inv : ChainReadThenEncodeThrows(i)
    \/ \E i \in Inv : ChainReadThenSend(i)
    \/ \E i \in Inv, e \in ServiceErrors : CallbackError(i, e)
    \/ \E i \in Inv : CallbackResponse(i)
    \/ \E i \in Inv : Commit(i)
    \/ GetState
    \/ \E a \in Amounts : AddFundsSucceeds(a)
    \/ \E e \in Expirations : ExtendExpirationSucceeds(e)
    \/ \E e \in Expirations, a \in Amounts : ExtendAndAddFundsSucceeds(e, a)
    \/ \E c \in EscrowCalls : EscrowCallFails(c[1], c[2])
    \/ ChannelClaim
    \/ \E r \in Replies : ServiceUpdate(r)

Spec == Init /\ [][Next]_vars

\* one sync as the code runs it, and beside it the same sync with both reads
\* issued at once, in a world that moves
NextPar ==
    \/ CallSyncState(1)
    \/ \E e \in ContractErrors : ChainReadRejects(1, e)
    \/ ChainReadThenEncodeThrows(1)
    \/ ChainReadThenSend(1)
    \/ \E e \in ServiceErrors : CallbackError(1, e)
    \/ CallbackResponse(1)
    \/ Commit(1)
    \/ ParCall
    \/ ParChainResolves
    \/ \E e \in ContractErrors : ParChainRejects(e)
    \/ ParCallbackResponse
    \/ \E e \in ServiceErrors : ParCallbackError(e)
    \/ ParSettles
    \/ \E a \in Amounts : AddFundsSucceeds(a)
    \/ ChannelClaim
    \/ \E r \in Replies : ServiceUpdate(r)

SpecPar == Init /\ [][NextPar]_vars


\* The collaborators answer and the job queue runs: the on-chain read of every
\* invocation settles in the end (and lines 75-102 then run without waiting),
\* the daemon's client invokes the callback of every request in the end, and
\* the continuation after the second await (lines 76-87) is run.
ChainReadSettles(i) ==
    \/ \E e \in ContractErrors : ChainReadRejects(i, e)
    \/ \E e \in SignErrors : ChainReadThenSignThrows(i, e)
    \/ ChainReadThenEncodeThrows(i)
    \/ ChainReadThenSend(i)

CallbackInvoked(i) ==
    \/ \E e \in ServiceErrors : CallbackError(i, e)
    \/ CallbackResponse(i)

Fairness ==
    \A i \in Inv :
        /\ WF_vars(ChainReadSettles(i))
        /\ WF_vars(CallbackInvoked(i))
        /\ WF_vars(Commit(i))

\* the invocations of syncState while the daemon's state moves, without the
\* escrow calls, the claims and the getter, which no invocation waits for
NextSync ==
    \/ \E i \in Inv : CallSyncState(i)
    \/ \E i \in Inv : ChainReadSettles(i)
    \/ \E i \in Inv : CallbackInvoked(i)
    \/ \E i \in Inv : Commit(i)
    \/ \E r \in Replies : ServiceUpdate(r)

FairSpec == Init /\ [][NextSync]_vars /\ Fairness

\* ------------------------------------------------------------------ claims
\* Reference definitions the claims are stated with.
\* 256 * v + b, the step of reading one more byte of a big-endian integer
MulAdd256(v, b) ==
    LET l1 == v.lo \div 2^19
        l0 == v.lo % 2^19
    IN  BN(v.hi * 256 + l1, l0 * 256 + b)

\* the integer whose big-endian representation the byte array is
RECURSIVE BigEndian(_)
BigEndian(bytes) ==
    IF bytes = <<>> THEN Zero
    ELSE MulAdd256(BigEndian(SubSeq(bytes, 1, Len(bytes) - 1)), bytes[Len(bytes)])

\* the exact integer totalAmount - lastSignedAmount, as a signed number
ExactDifference(totalAmount, lastSignedAmount) ==
    IF totalAmount.nan \/ lastSignedAmount.nan THEN NumNaN
    ELSE IF BNLess(totalAmount, lastSignedAmount)
         THEN LET m == BNMonus(lastSignedAmount, totalAmount) IN Num(TRUE, m.hi, m.lo)
         ELSE LET m == BNMonus(totalAmount, lastSignedAmount) IN Num(FALSE, m.hi, m.lo)

\* the fields of a merged record
MergedFields ==
    {"nonce", "currentNonce", "expiration", "totalAmount", "lastSignedAmount",
     "availableAmount"}

\* the step in which invocation i assigns this._state and returns
Commits(i) == pc[i] = "merge" /\ pc'[i] = "done"

\* C1: a syncState invocation that fails changes nothing of the held state: no
\* step of an invocation other than its final assignment changes this._state,
\* and at the step in which an invocation rejects, the held state is the one
\* held at its call whenever no other invocation has assigned it meanwhile.
C1_FailedSyncKeepsState ==
    [][\A i \in Inv :
          /\ (pc'[i] # pc[i] /\ pc'[i] # "done") => state' = state
          /\ (pc[i] # "rejected" /\ pc'[i] = "rejected" /\ hist[i].after = lastBy)
                => state' = hist[i].pre]_vars

\* C1 witness: after an earlier sync has populated the state, an invocation
\* whose on-chain read succeeded and whose request was sent has rejected with
\* the daemon's error.
C1_Witness ==
    \E i \in Inv :
        /\ pc[i] = "rejected"
        /\ error[i] \in ServiceErrors
        /\ request[i] # NoInfo
        /\ lastBy # 0
        /\ state # InitialState

\* C2: at every successful completion of syncState the held state becomes the
\* merged record of that invocation's two reads, and whenever
\* totalAmount >= lastSignedAmount >= 0 its availableAmount is the exact
\* difference totalAmount - lastSignedAmount.
C2_MergedExact ==
    [][\A i \in Inv :
          Commits(i) =>
              LET info == latestChannelInfoOnBlockchain[i]
                  cur == currentState[i]
              IN  /\ state'.nonce = info.nonce
                  /\ state'.expiration = info.expiration
                  /\ state'.totalAmount = info.value
                  /\ state'.currentNonce = cur.nonce
                  /\ state'.lastSignedAmount = cur.lastSignedAmount
                  /\ (~cur.lastSignedAmount.nan
                      /\ ~BNLess(info.value, cur.lastSignedAmount))
                        => state'.availableAmount
                             = ExactDifference(info.value, cur.lastSignedAmount)]_vars

\* C3: at most one syncState invocation of the channel is in flight at a time.
C3_AtMostOneInFlight == Cardinality({i \in Inv : InFlight(i)}) <= 1

\* C4: the held state is always either the unsynced state or a complete merged
\* record, and it changes only in the single step in which one invocation
\* assigns the record merged from its own on-chain read and its own off-chain
\* reply; no state with part of a sync applied is ever held.
C4_StateIsWholeRecord ==
    /\ [](state = InitialState \/ DOMAIN state = MergedFields)
    /\ [][state' # state =>
             \E i \in Inv :
                 /\ Commits(i)
                 /\ state' = Merged(latestChannelInfoOnBlockchain[i], currentState[i])]_vars

\* C4 witness: a populated state is held while another invocation is in flight
\* that has already read a different on-chain record.
C4_Witness ==
    /\ lastBy # 0
    /\ \E j \in Inv :
           /\ pc[j] \in {"service", "merge"}
           /\ latestChannelInfoOnBlockchain[j].nonce # state.nonce

\* C5: when the reply's lastSignedAmount exceeds totalAmount the sync commits,
\* and the committed availableAmount is negative and is the exact difference
\* totalAmount - lastSignedAmount.
C5_NegativeExact ==
    [][\A i \in Inv :
          (/\ Commits(i)
           /\ ~currentState[i].lastSignedAmount.nan
           /\ BNLess(latestChannelInfoOnBlockchain[i].value,
                     currentState[i].lastSignedAmount))
            => /\ state'.availableAmount.neg
               /\ state'.availableAmount
                    = ExactDifference(latestChannelInfoOnBlockchain[i].value,
                                      currentState[i].lastSignedAmount)]_vars

\* the daemon's nonce of invocation i is behind the on-chain nonce it read
Skewed(i) ==
    /\ pc[i] = "merge"
    /\ ~currentState[i].nonce.nan
    /\ BNLess(currentState[i].nonce, latestChannelInfoOnBlockchain[i].nonce)

\* C6: when the daemon reports a currentNonce lower than the on-chain nonce,
\* the invocation does not reject: its only step is the commit, and the
\* committed state holds the on-chain value in nonce and the daemon's value in
\* currentNonce, two different values in two fields.
C6_NonceSkewKept ==
    [][\A i \in Inv :
          Skewed(i) =>
              /\ pc'[i] \in {"merge", "done"}
              /\ pc'[i] = "done" =>
                    /\ state'.nonce = latestChannelInfoOnBlockchain[i].nonce
                    /\ state'.currentNonce = currentState[i].nonce
                    /\ state'.nonce # state'.currentNonce]_vars

\* C6 witness: the committed state holds on-chain nonce 5 and daemon nonce 4.
C6_Witness ==
    /\ lastBy # 0
    /\ state.nonce = Small(5)
    /\ state.currentNonce = Small(4)

\* C7: every rejection of syncState carries one of the typed error kinds of
\* the taxonomy, AuthenticationError or StateFetchError.
C7_TypedErrors ==
    \A i \in Inv :
        pc[i] = "rejected" =>
            error[i] \in {"AuthenticationError", "StateFetchError"}

\* C8: as long as no syncState invocation has completed successfully, the held
\* state is the constructor's unsynced state, nonce 0 and lastSignedAmount 0,
\* whatever failed syncs, pending syncs and escrow calls have happened.
C8_UnsyncedUntilSuccess ==
    (\A i \in Inv : pc[i] # "done")
        => state = [nonce |-> Zero, lastSignedAmount |-> Zero]

\* C8 witness: a sync has failed, another is pending, an escrow call has
\* succeeded, and no sync has completed.
C8_Witness ==
    /\ \A i \in Inv : pc[i] # "done"
    /\ \E i \in Inv : pc[i] = "rejected"
    /\ \E i \in Inv : InFlight(i)
    /\ lastTx.method # "none"
    /\ lastTx.result.ok

\* C9: the decoding of the reply's byte arrays yields the integer whose
\* big-endian representation each array is (zero for an empty array).
C9_DecodesBigEndian ==
    [][\A i \in Inv :
          (pc[i] = "service" /\ pc'[i] = "merge")
            => /\ currentState'[i].nonce = BigEndian(service.currentNonce)
               /\ currentState'[i].lastSignedAmount
                    = BigEndian(service.currentSignedAmount)]_vars

\* C10: when a syncState invocation called after the previous successful one
\* commits, and nothing outside has happened since the previous one was
\* called, the held state after it equals the held state before it, which is
\* the state the previous one committed.
C10_IdempotentOnSuccess ==
    [][\A j \in Inv : (Commits(j) /\ repeat') => state' = state]_vars

\* C10 witness: two invocations have succeeded one after the other with
\* nothing outside happening from the first call to the second commit.
C10_Witness ==
    /\ repeat
    /\ Cardinality({i \in Inv : pc[i] = "done"}) >= 2

\* C11: no retries. Every invocation of syncState calls mpeContract.channels
\* exactly once and getChannelState at most once; an invocation whose on-chain
\* read or whose signing failed has sent no request at all, and one whose
\* request failed has sent exactly that one.
C11_NoRetries ==
    \A i \in Inv :
        /\ pc[i] = "idle" => calls[i] = NoCalls
        /\ pc[i] # "idle" =>
            /\ calls[i].channels = 1
            /\ calls[i].signedData <= 1
            /\ calls[i].getChannelState <= 1
        /\ (pc[i] = "rejected" /\ error[i] \in ContractErrors \cup SignErrors \cup {RangeError})
            => calls[i].getChannelState = 0
        /\ (pc[i] = "rejected" /\ error[i] \in ServiceErrors)
            => calls[i].getChannelState = 1

\* C11 witness: one invocation was rejected by the daemon after its single
\* request, another by the contract.
C11_Witness ==
    /\ \E i \in Inv : pc[i] = "rejected" /\ error[i] \in ServiceErrors
                      /\ calls[i].getChannelState = 1
    /\ \E i \in Inv : pc[i] = "rejected" /\ error[i] \in ContractErrors
                      /\ calls[i].channels = 1

SameResponses ==
    CASE pc[1] = "merge" ->
            /\ par.info = latestChannelInfoOnBlockchain[1]
            /\ par.cur = currentState[1]
      [] pc[1] = "service" ->
            /\ par.info = latestChannelInfoOnBlockchain[1]
            /\ par.cur = [err |-> error'[1]]
      [] pc[1] = "chain" /\ error'[1] \in ContractErrors ->
            par.info = [err |-> error'[1]]
      [] OTHER -> TRUE

C13_ReplacedNotMutated ==
    seen.taken =>
        /\ seen.now = seen.then
        /\ seen.current => state = seen.now

\* C13 witness: the getter was read, then a sync committed a state with other
\* field values, and a later sync has committed again.
C13_Witness ==
    /\ seen.taken
    /\ ~seen.current
    /\ state # seen.then
    /\ seen.now = seen.then
    /\ Cardinality({i \in Inv : pc[i] = "done"}) >= 2

\* the escrow operation each of the three methods stands for
EscrowOperationOf(method) ==
    CASE method = "addFunds" -> "channelAddFunds"
      [] method = "extendExpiration" -> "channelExtend"
      [] method = "extendAndAddFunds" -> "channelExtendAndAddFunds"

\* the method invoked made one call, of its escrow operation, with the
\* channel's account and id and the arguments it was given, and settled as
\* that call settled
PassedThrough(tx) ==
    /\ Len(tx.made) = 1
    /\ tx.made[1].op = EscrowOperationOf(tx.method)
    /\ tx.made[1].account = Account
    /\ tx.made[1].channelId = channelId
    /\ tx.made[1].args = tx.given
    /\ tx.made[1].ok = tx.outcome.ok
    /\ tx.result = tx.outcome

\* C14: addFunds, extendExpiration and extendAndAddFunds pass through: each
\* makes exactly one call of the corresponding escrow operation with the
\* channel's account, its id and the arguments given, settles with that call's
\* receipt or failure unchanged, and leaves the held state as it was.
C14_EscrowPassThrough ==
    [][lastTx' # lastTx => (PassedThrough(lastTx') /\ state' = state)]_vars

\* C14 witness: extendAndAddFunds was invoked after a sync had committed, its
\* contract call failed, and the failure is what the method rejected with.
C14_Witness ==
    /\ lastTx.method = "extendAndAddFunds"
    /\ lastTx.made[1].args = <<Small(10), Small(1)>>
    /\ lastTx.result = Failure("Web3Error")
    /\ state # InitialState

\* C15: the daemon's side is touched only after the on-chain read has
\* succeeded. While mpeContract.channels is pending no signature has been asked
\* for and no request built or sent; an invocation whose on-chain read failed
\* has asked for no signature and sent no request; and whoever has asked for a
\* signature or sent a request has its on-chain read resolved.
C15_OffChainAfterChainRead ==
    \A i \in Inv :
        /\ pc[i] = "chain" =>
            /\ calls[i].signedData = 0
            /\ calls[i].getChannelState = 0
            /\ request[i] = NoInfo
        /\ (pc[i] = "rejected" /\ error[i] \in ContractErrors) =>
            /\ calls[i].signedData = 0
            /\ calls[i].getChannelState = 0
            /\ request[i] = NoInfo
        /\ (calls[i].signedData > 0 \/ calls[i].getChannelState > 0 \/ request[i] # NoInfo) =>
            /\ calls[i].channels = 1
            /\ pc[i] \in {"service", "merge", "done", "rejected"}
            /\ calls[i].getChannelState <= calls[i].signedData

\* C15 witness: the on-chain read of one invocation is pending, that of another has
\* failed without a signature having been asked for.
C15_Witness ==
    /\ \E i \in Inv : pc[i] = "chain" /\ calls[i].channels = 1
    /\ \E i \in Inv : /\ pc[i] = "rejected"
                      /\ error[i] \in ContractErrors
                      /\ calls[i].signedData = 0

\* C16: the on-chain nonce never decreasing, the on-chain nonce held by the
\* channel never decreases from one commit to the next, however the
\* invocations of syncState interleave.
C16_NonceNeverDecreases ==
    [][\A i \in Inv :
          (Commits(i) /\ lastBy # 0) => ~BNLess(state'.nonce, state.nonce)]_vars

\* C17: every invocation of syncState settles, and settles once: called, it
\* ends resolved (having committed the merged state) or rejected, given that
\* the on-chain read settles and the callback is invoked; once settled it stays
\* as it settled. There is no timeout: an invocation waiting for the daemon
\* leaves that wait only when the callback is invoked, and the held state
\* changes by nothing but the commit of a sync that resolves.
C17_SettlesOnce ==
    /\ \A i \in Inv : (pc[i] = "chain") ~> (pc[i] \in {"done", "rejected"})
    /\ [][\A i \in Inv :
            /\ pc[i] \in {"done", "rejected"} => pc'[i] = pc[i]
            /\ pc'[i] = "done" /\ pc[i] # "done" =>
                /\ pc[i] = "merge"
                /\ state' = Merged(latestChannelInfoOnBlockchain[i], currentState[i])
            /\ pc[i] = "service" /\ pc'[i] # "service" =>
                \/ pc'[i] = "merge" /\ currentState'[i] = ChannelStateOf(service)
                \/ pc'[i] = "rejected" /\ error'[i] \in ServiceErrors
            /\ state' # state => \E j \in Inv : Commits(j)]_vars

\* C17 witness: one invocation has resolved and another has been rejected by
\* the daemon, while the world moved in between.
C17_Witness ==
    /\ \E i \in Inv : pc[i] = "done" /\ lastBy = i
    /\ \E i \in Inv : pc[i] = "rejected" /\ error[i] \in ServiceErrors
    /\ events = MaxEnv

\* the channel id is one a 4-byte unsigned integer holds: 0 <= id < 2^32
IsUInt32(id) == ~id.neg /\ BNLess(BN(id.hi, id.lo), BN(32, 0))

\* C18: with a channel id below 0 or from 2^32 on, every syncState fails: the
\* on-chain read is issued and the signature asked for, the 4-byte encoding
\* fails, no getChannelState request is ever built or sent, the invocation
\* never resolves and the held state stays the initial one. With an id in
\* range the request carries exactly the four bytes, most significant first,
\* that decode back to the id.
C18_ChannelIdRange ==
    \A i \in Inv :
        /\ ~IsUInt32(channelId) =>
            /\ pc[i] \in {"idle", "chain", "rejected"}
            /\ request[i] = NoInfo
            /\ calls[i].getChannelState = 0
            /\ state = InitialState
            /\ (pc[i] = "rejected" /\ error[i] = RangeError) =>
                (calls[i].channels = 1 /\ calls[i].signedData = 1)
            /\ (pc[i] = "rejected") => error[i] \in ContractErrors \cup SignErrors \cup {RangeError}
        /\ (IsUInt32(channelId) /\ request[i] # NoInfo) =>
            /\ Len(request[i].channelId) = 4
            /\ \A k \in 1..4 : request[i].channelId[k] \in 0..255
            /\ BigEndian(request[i].channelId) = BN(channelId.hi, channelId.lo)
            /\ error[i] # RangeError

\* C18 witness: the channel id is 2^32, one invocation has failed at the
\* encoding after the signature, and another is waiting for its on-chain read.
C18_Witness ==
    /\ channelId = Id(FALSE, 32, 0)
    /\ \E i \in Inv : pc[i] = "rejected" /\ error[i] = RangeError /\ calls[i].signedData = 1
    /\ \E i \in Inv : pc[i] = "chain"
====
